---------------------------- MODULE Spec2Model ----------------------------
(***************************************************************************)
(* planets-service, src/planets-service/src/graphql.rs: the GraphQL        *)
(* resolvers (Query, Mutation, Subscription), the per-request detail       *)
(* loader's batch function, the broker calls and the numeric scalars.      *)
(*                                                                         *)
(* Numbers.  TLC's integers are 32 bits wide, the program's BigInt and     *)
(* BigDecimal are unbounded, so both are modelled by their digits:         *)
(*   BigInt     [neg |-> BOOLEAN, mag |-> decimal digits, most significant *)
(*               first, no leading zero, <<>> for zero]                    *)
(*   BigDecimal [int_val |-> BigInt, scale |-> Int], value                 *)
(*               int_val * 10^(-scale), as in the bigdecimal crate         *)
(* Strings that the program parses or prints are sequences of one          *)
(* character strings; Option<T> is <<>> (None) or <<v>> (Some(v)).         *)
(***************************************************************************)
EXTENDS Integers, Sequences, FiniteSets, TLC

None == <<>>
Some(v) == <<v>>
IsSome(opt) == Len(opt) = 1
Unwrap(opt) == opt[1]

(***************************************************************************)
(* Digit sequences                                                         *)
(***************************************************************************)
Zeros(n) == [i \in 1..n |-> 0]

MinOf(S) == CHOOSE x \in S : \A y \in S : x <= y
MaxOf(S) == CHOOSE x \in S : \A y \in S : x >= y

StripLeading(m) ==
    LET nz == {i \in 1..Len(m) : m[i] # 0}
    IN  IF nz = {} THEN <<>> ELSE SubSeq(m, MinOf(nz), Len(m))

\* digits of a natural number that fits a machine word
RECURSIVE NatDigits(_)
NatDigits(n) == IF n = 0 THEN <<>> ELSE Append(NatDigits(n \div 10), n % 10)

\* magnitude comparison: -1, 0, 1
CmpMag(a, b) ==
    IF Len(a) < Len(b) THEN -1
    ELSE IF Len(a) > Len(b) THEN 1
    ELSE LET diff == {i \in 1..Len(a) : a[i] # b[i]}
         IN  IF diff = {} THEN 0
             ELSE IF a[MinOf(diff)] < b[MinOf(diff)] THEN -1 ELSE 1

\* a + b + carry for two digit strings of one length n: n + 1 digits, the
\* first being the carry out.  The low half is added first and its carry
\* goes into the high half.
RECURSIVE AddCarry(_, _, _)
AddCarry(a, b, carry) ==
    IF Len(a) = 0 THEN <<carry>>
    ELSE IF Len(a) = 1
         THEN <<(a[1] + b[1] + carry) \div 10, (a[1] + b[1] + carry) % 10>>
    ELSE LET h  == Len(a) \div 2
             lo == AddCarry(SubSeq(a, h + 1, Len(a)), SubSeq(b, h + 1, Len(b)), carry)
         IN  IF lo[1] = 0
             THEN AddCarry(SubSeq(a, 1, h), SubSeq(b, 1, h), 0) \o Tail(lo)
             ELSE AddCarry(SubSeq(a, 1, h), SubSeq(b, 1, h), 1) \o Tail(lo)

AddMag(a, b) ==
    IF a = <<>> THEN b
    ELSE IF b = <<>> THEN a
    ELSE LET n == IF Len(a) > Len(b) THEN Len(a) ELSE Len(b)
         IN  StripLeading(AddCarry(Zeros(n - Len(a)) \o a, Zeros(n - Len(b)) \o b, 0))

\* a * d + carry for one digit d: Len(a) + 1 digits
RECURSIVE MulDigitCarry(_, _, _)
MulDigitCarry(a, d, carry) ==
    IF Len(a) = 0 THEN <<carry>>
    ELSE IF Len(a) = 1
         THEN <<(a[1] * d + carry) \div 10, (a[1] * d + carry) % 10>>
    ELSE LET h  == Len(a) \div 2
             lo == MulDigitCarry(SubSeq(a, h + 1, Len(a)), d, carry)
         IN  IF lo[1] = 0
             THEN MulDigitCarry(SubSeq(a, 1, h), d, 0) \o Tail(lo)
             ELSE MulDigitCarry(SubSeq(a, 1, h), d, lo[1]) \o Tail(lo)

MulDigit(a, d) ==
    IF d = 0 \/ a = <<>> THEN <<>>
    ELSE IF d = 1 THEN a
    ELSE StripLeading(MulDigitCarry(a, d, 0))

\* a * b on magnitudes: b is split into a high and a low half
RECURSIVE MulMag(_, _)
MulMag(a, b) ==
    IF a = <<>> \/ b = <<>> THEN <<>>
    ELSE IF Len(b) = 1 THEN MulDigit(a, b[1])
    ELSE LET h   == Len(b) \div 2
             phi == MulMag(a, SubSeq(b, 1, Len(b) - h))
             plo == MulMag(a, SubSeq(b, Len(b) - h + 1, Len(b)))
         IN  AddMag(IF phi = <<>> THEN <<>> ELSE phi \o Zeros(h), plo)

(***************************************************************************)
(* BigInt and BigDecimal                                                   *)
(***************************************************************************)
BigInt(neg, mag) == [neg |-> neg /\ mag # <<>>, mag |-> mag]

BigIntFromNat(n) == BigInt(FALSE, NatDigits(n))

BigIntMul(a, b) == BigInt(a.neg # b.neg, MulMag(a.mag, b.mag))

\* BigInt division by 10^k truncates toward zero
BigIntDivPow10(a, k) ==
    IF k >= Len(a.mag) THEN BigInt(FALSE, <<>>)
    ELSE BigInt(a.neg, SubSeq(a.mag, 1, Len(a.mag) - k))

BigIntMulPow10(a, k) ==
    IF a.mag = <<>> THEN a ELSE BigInt(a.neg, a.mag \o Zeros(k))

BigDecimal(int_val, scale) == [int_val |-> int_val, scale |-> scale]

\* impl Mul for BigDecimal: the integer parts multiply, the scales add
BigDecimalMul(a, b) ==
    BigDecimal(BigIntMul(a.int_val, b.int_val), a.scale + b.scale)

\* BigDecimal::with_scale
WithScale(d, new_scale) ==
    IF d.int_val.mag = <<>> THEN BigDecimal(d.int_val, new_scale)
    ELSE IF new_scale > d.scale
         THEN BigDecimal(BigIntMulPow10(d.int_val, new_scale - d.scale), new_scale)
    ELSE IF new_scale < d.scale
         THEN BigDecimal(BigIntDivPow10(d.int_val, d.scale - new_scale), new_scale)
    ELSE d

\* impl ToBigInt for BigDecimal: Some(self.with_scale(0).int_val)
ToBigInt(d) == Some(WithScale(d, 0).int_val)

\* value equality of two decimals (the scales are aligned first)
DecimalEq(a, b) ==
    LET s == IF a.scale > b.scale THEN a.scale ELSE b.scale
    IN  WithScale(a, s).int_val = WithScale(b, s).int_val


(***************************************************************************)
(* Characters, identifiers                                                 *)
(***************************************************************************)
DigitChars == <<"0", "1", "2", "3", "4", "5", "6", "7", "8", "9">>

IsDigitChar(c) == \E i \in 1..10 : DigitChars[i] = c

DigitVal(c) == (CHOOSE i \in 1..10 : DigitChars[i] = c) - 1

DigitsToChars(ds) == [i \in 1..Len(ds) |-> DigitChars[ds[i] + 1]]

\* i32::to_string / usize Display
IntToChars(n) ==
    IF n = 0 THEN <<"0">>
    ELSE IF n < 0 THEN <<"-">> \o DigitsToChars(NatDigits(-n))
    ELSE DigitsToChars(NatDigits(n))

I32Max == 2147483647
I32Min == -I32Max - 1

\* the digit loop of str::parse::<i32>: checked_mul by 10, then checked_add
\* (checked_sub after a minus sign) of each digit
RECURSIVE ParseDigits(_, _, _)
ParseDigits(cs, acc, negative) ==
    IF cs = <<>> THEN [ok |-> TRUE, val |-> acc]
    ELSE IF ~IsDigitChar(cs[1]) THEN [ok |-> FALSE, val |-> 0]
    ELSE LET d == DigitVal(cs[1])
         IN  IF negative
             THEN IF acc < -(I32Max \div 10) \/ acc * 10 < I32Min + d
                  THEN [ok |-> FALSE, val |-> 0]
                  ELSE ParseDigits(Tail(cs), acc * 10 - d, negative)
             ELSE IF acc > I32Max \div 10 \/ acc * 10 > I32Max - d
                  THEN [ok |-> FALSE, val |-> 0]
                  ELSE ParseDigits(Tail(cs), acc * 10 + d, negative)

\* id.to_string().parse::<i32>(): an optional sign, then at least one digit
ParseI32(cs) ==
    IF cs = <<>> THEN [ok |-> FALSE, val |-> 0]
    ELSE IF cs[1] \in {"+", "-"}
         THEN IF Len(cs) = 1 THEN [ok |-> FALSE, val |-> 0]
              ELSE ParseDigits(Tail(cs), 0, cs[1] = "-")
    ELSE ParseDigits(cs, 0, FALSE)

\* entity.id.into(): ID::from(i32) holds the integer's decimal string
IdFromInt(n) == IntToChars(n)

(***************************************************************************)
(* Mass: get_new_planet_mass, Details::from, CustomBigInt::to_value        *)
(*                                                                         *)
(* An f32 mantissa is represented by what format!("{:.6e}", n) prints of   *)
(* it, which is all BigDecimal::from(f32) reads: the sign, the seven       *)
(* significant digits d.dddddd as the natural number sig, and the decimal  *)
(* exponent exp.  6.42 is [neg |-> FALSE, sig |-> 6420000, exp |-> 0].     *)
(***************************************************************************)
F32(neg, sig, exp) == [neg |-> neg, sig |-> sig, exp |-> exp]

F32Digits == 6

\* BigDecimal::from(f32): from_str of the {:.6e} rendering
BigDecimalFromF32(m) ==
    BigDecimal(BigInt(m.neg, NatDigits(m.sig)), F32Digits - m.exp)

\* num::pow(base, exp): exponentiation by squaring
RECURSIVE Pow(_, _)
Pow(base, exp) ==
    IF exp = 0 THEN BigDecimal(BigIntFromNat(1), 0)
    ELSE IF exp = 1 THEN base
    ELSE IF exp % 2 = 0 THEN Pow(BigDecimalMul(base, base), exp \div 2)
    ELSE BigDecimalMul(base, Pow(BigDecimalMul(base, base), exp \div 2))

\* num::pow(BigDecimal::from(10), exponent as usize)
PowTen(exponent) == Pow(BigDecimal(BigIntFromNat(10), 0), exponent)

get_new_planet_mass(mantissa, exponent) ==
    LET m     == BigDecimalFromF32(mantissa)
        power == PowTen(exponent)
    IN  BigDecimalMul(m, power)

\* impl From<&DetailsEntity> for Details
InhabitedPlanetDetails(mean_radius, mass, population) ==
    [variant |-> "InhabitedPlanetDetails", mean_radius |-> mean_radius,
     mass |-> mass, population |-> population]

UninhabitedPlanetDetails(mean_radius, mass) ==
    [variant |-> "UninhabitedPlanetDetails", mean_radius |-> mean_radius,
     mass |-> mass]

DetailsFrom(entity) ==
    IF IsSome(entity.population)
    THEN InhabitedPlanetDetails(entity.mean_radius,
                                Unwrap(ToBigInt(entity.mass)),
                                Unwrap(entity.population))
    ELSE UninhabitedPlanetDetails(entity.mean_radius,
                                  Unwrap(ToBigInt(entity.mass)))

\* i128::MAX = 2^127 - 1
I128MaxMag ==
    <<1,7,0,1,4,1,1,8,3,4,6,0,4,6,9,2,3,1,7,3,1,6,8,7,3,0,3,7,1,5,8,8,4,1,0,5,7,2,7>>

\* BigInt::to_i128: Some iff -2^127 <= value <= 2^127 - 1
ToI128(b) ==
    IF b.neg
    THEN IF CmpMag(b.mag, AddMag(I128MaxMag, <<1>>)) <= 0 THEN Some(b) ELSE None
    ELSE IF CmpMag(b.mag, I128MaxMag) <= 0 THEN Some(b) ELSE None

\* the digits without their trailing zeros (one digit is always kept)
StripTrailing(m) ==
    LET nz == {i \in 1..Len(m) : m[i] # 0}
    IN  IF nz = {} THEN SubSeq(m, 1, 1) ELSE SubSeq(m, 1, MaxOf(nz))

\* LowerExp for i128: trailing zeros removed, first digit, "." iff more
\* digits follow, "e", exponent = number of digits - 1
LowerExpI128(v) ==
    LET m    == IF v.mag = <<>> THEN <<0>> ELSE v.mag
        s    == StripTrailing(m)
        sign == IF v.neg THEN <<"-">> ELSE <<>>
        frac == IF Len(s) > 1
                THEN <<".">> \o DigitsToChars(SubSeq(s, 2, Len(s)))
                ELSE <<>>
    IN  sign \o <<DigitChars[s[1] + 1]>> \o frac \o <<"e">> \o IntToChars(Len(m) - 1)

\* CustomBigInt::to_value with LowerExp for CustomBigInt: the text, or the
\* panic of expect("Can't convert BigInt to an integer")
to_value(mass) ==
    LET val == ToI128(mass)
    IN  IF IsSome(val)
        THEN [ok |-> TRUE, text |-> LowerExpI128(Unwrap(val))]
        ELSE [ok |-> FALSE, text |-> <<>>]

(***************************************************************************)
(* Planet, PlanetType                                                      *)
(***************************************************************************)
\* enum PlanetType, by declaration order; strum's Display and EnumString
\* print and parse the variant's name
PlanetTypeNames == <<"TerrestrialPlanet", "GasGiant", "IceGiant", "DwarfPlanet">>

PlanetTypeToString(t) == PlanetTypeNames[t]

PlanetTypeFromStr(s) ==
    IF \E t \in DOMAIN PlanetTypeNames : PlanetTypeNames[t] = s
    THEN Some(CHOOSE t \in DOMAIN PlanetTypeNames : PlanetTypeNames[t] = s)
    ELSE None

\* impl From<&PlanetEntity> for Planet
PlanetFrom(entity) ==
    [id          |-> IdFromInt(entity.id),
     name        |-> entity.name,
     planet_type |-> Unwrap(PlanetTypeFromStr(entity.planet_type))]

(***************************************************************************)
(* Bounds and inputs                                                       *)
(***************************************************************************)
MaxOps == 2          \* operations (requests) the service receives

Ops == 1..MaxOps

\* wire identifiers a client may send: the two seeded bodies, the first
\* created one, a non-number and a number that does not fit an i32
IdOne == <<"1">>
IdTwo == <<"2">>
IdThree == <<"3">>
IdNotNumber == <<"1", "x">>
IdTooLarge == <<"2", "1", "4", "7", "4", "8", "3", "6", "4", "8">>

\* the planet(id: ...) fields of one query, by alias
AliasInputs ==
    { <<IdOne>>, <<IdThree>>, <<IdNotNumber>>,
      <<IdOne, IdOne>>, <<IdOne, IdTwo>>, <<IdTwo, IdTooLarge>>,
      <<IdThree, IdOne, IdThree>> }

Dec(sig, scale) == BigDecimal(BigIntFromNat(sig), scale)

\* createPlanet arguments: 6.42e23 uninhabited, 1.5e39 inhabited
CreateInputs ==
    { [name |-> "Vulcan", planet_type |-> 1,
       details |-> [mean_radius |-> Dec(33895, 1),
                    mass |-> [mantissa |-> F32(FALSE, 6420000, 0), exponent |-> 23],
                    population |-> None]],
      [name |-> "Ceres", planet_type |-> 4,
       details |-> [mean_radius |-> Dec(4730, 1),
                    mass |-> [mantissa |-> F32(FALSE, 1500000, 0), exponent |-> 39],
                    population |-> Some(Dec(25, 2))]] }

VARIABLES
    planetRows,     \* gateway: the planets table, in listing order
    detailRows,     \* gateway: the details table, a set of rows
    nextId,         \* gateway: the identifier the next insert assigns
    pc,             \* per operation: where it stands
    kind,           \* per operation: planets, planet, create_planet, latest_planet
    args,           \* per planet query: the identifiers of its fields
    bodies,         \* per query: the Option<Planet> of each selected field
    pending,        \* per query: the identifiers passed to loader.load, in call order
    delivered,      \* per query: the Option<Details> each load future resolved to
    detailCalls,    \* per query: repository::get_details calls made
    gwFailed,       \* per operation: the gateway call of it that returned an error
    panicMsg,       \* per operation: the message of the expect that panicked
    created,        \* per create_planet: the entity the insert returned
    result,         \* per create_planet: the ID the mutation returned
    senders,        \* broker: the subscribed streams
    recv,           \* broker: what each stream was sent, in order
    phaseAtSub,     \* per stream: pc of every operation when it subscribed
    pubLog          \* broker: every publish call, in order

VARIABLES
    cPhase,         \* mass pipeline: input, new, row, details, wire
    cInput,         \* the DetailsInput
    cNew,           \* the NewDetailsEntity handed to the gateway
    cRow,           \* the DetailsEntity read back
    cDetails,       \* Details::from of it
    cWire           \* to_value of its mass

mainVars ==
    <<planetRows, detailRows, nextId, pc, kind, args, bodies, pending,
      delivered, detailCalls, gwFailed, panicMsg, created, result, senders,
      recv, phaseAtSub, pubLog>>

codecVars == <<cPhase, cInput, cNew, cRow, cDetails, cWire>>

vars == <<mainVars, codecVars>>

(***************************************************************************)
(* Persistence gateway (crate::persistence::repository), at its interface  *)
(***************************************************************************)
SeedPlanets ==
    << [id |-> 1, name |-> "Mercury", planet_type |-> "TerrestrialPlanet"],
       [id |-> 2, name |-> "Venus",   planet_type |-> "TerrestrialPlanet"] >>

SeedDetails ==
    { [planet_id |-> 1, mean_radius |-> Dec(24397, 1),
       mass |-> BigDecimal(BigIntMulPow10(BigIntFromNat(3302), 20), 0),
       population |-> None],
      [planet_id |-> 2, mean_radius |-> Dec(60518, 1),
       mass |-> BigDecimal(BigIntMulPow10(BigIntFromNat(487), 22), 0),
       population |-> None] }

\* repository::all
repository_all == planetRows

\* repository::get: Ok(row) or Err(NotFound)
repository_get(id) ==
    IF \E i \in 1..Len(planetRows) : planetRows[i].id = id
    THEN Some(planetRows[CHOOSE i \in 1..Len(planetRows) : planetRows[i].id = id])
    ELSE None

\* repository::get_details: Ok(row) or Err(NotFound)
repository_get_details(planet_id) ==
    IF \E r \in detailRows : r.planet_id = planet_id
    THEN Some(CHOOSE r \in detailRows : r.planet_id = planet_id)
    ELSE None

\* repository::create: the planet row with its assigned identifier, and the
\* details row pointing at it
CreatedPlanetEntity(new_planet) ==
    [id |-> nextId, name |-> new_planet.name, planet_type |-> new_planet.planet_type]

CreatedDetailsEntity(new_details) ==
    [planet_id |-> nextId, mean_radius |-> new_details.mean_radius,
     mass |-> new_details.mass, population |-> new_details.population]

(***************************************************************************)
(* Initial state: the seeded catalog; a body may lack its details row      *)
(***************************************************************************)
InitCodecIdle ==
    /\ cPhase = "off"
    /\ cInput = None
    /\ cNew = None
    /\ cRow = None
    /\ cDetails = None
    /\ cWire = None

InitMain ==
    /\ planetRows = SeedPlanets
    /\ detailRows \in {SeedDetails, {r \in SeedDetails : r.planet_id = 1}}
    /\ nextId = 3
    /\ pc = [o \in Ops |-> "idle"]
    /\ kind = [o \in Ops |-> "none"]
    /\ args = [o \in Ops |-> <<>>]
    /\ bodies = [o \in Ops |-> <<>>]
    /\ pending = [o \in Ops |-> <<>>]
    /\ delivered = [o \in Ops |-> <<>>]
    /\ detailCalls = [o \in Ops |-> 0]
    /\ gwFailed = [o \in Ops |-> "none"]
    /\ panicMsg = [o \in Ops |-> ""]
    /\ created = [o \in Ops |-> None]
    /\ result = [o \in Ops |-> None]
    /\ senders = {}
    /\ recv = [o \in Ops |-> <<>>]
    /\ phaseAtSub = [o \in Ops |-> [c \in Ops |-> "idle"]]
    /\ pubLog = <<>>

Init == InitMain /\ InitCodecIdle

(***************************************************************************)
(* Queries                                                                 *)
(***************************************************************************)
\* the identifiers of the bodies found, in field order: Planet::details
\* calls loader.load(self.id.clone()) for each
RECURSIVE DetailRequests(_)
DetailRequests(found) ==
    IF found = <<>> THEN <<>>
    ELSE IF IsSome(found[1])
         THEN <<Unwrap(found[1]).id>> \o DetailRequests(Tail(found))
         ELSE DetailRequests(Tail(found))

\* the operation panics in an expect: nothing of it is returned
Panics(o, k, msg, gw) ==
    /\ pc' = [pc EXCEPT ![o] = "panicked"]
    /\ kind' = [kind EXCEPT ![o] = k]
    /\ panicMsg' = [panicMsg EXCEPT ![o] = msg]
    /\ gwFailed' = [gwFailed EXCEPT ![o] = gw]

\* the fields resolved to `found`; their details are requested from the loader
Resolves(o, k, found, gw) ==
    /\ kind' = [kind EXCEPT ![o] = k]
    /\ bodies' = [bodies EXCEPT ![o] = found]
    /\ pending' = [pending EXCEPT ![o] = DetailRequests(found)]
    /\ pc' = [pc EXCEPT ![o] = IF DetailRequests(found) = <<>> THEN "done" ELSE "requested"]
    /\ gwFailed' = [gwFailed EXCEPT ![o] = gw]
    /\ UNCHANGED panicMsg

\* Query::planets
planets(o) ==
    /\ pc[o] = "idle"
    /\ \E fails \in BOOLEAN :
         IF fails
         THEN /\ Panics(o, "planets", "Can't get planets", "all")
              /\ UNCHANGED <<bodies, pending>>
         ELSE Resolves(o, "planets",
                       [i \in 1..Len(repository_all) |-> Some(PlanetFrom(repository_all[i]))],
                       "none")
    /\ UNCHANGED <<planetRows, detailRows, nextId, args, delivered, detailCalls,
                   created, result, senders, recv, phaseAtSub, pubLog, codecVars>>

\* find_planet_by_id_internal, after the identifier parsed: a gateway error
\* and a missing row both become None (.ok())
find_planet_by_id_internal(id, fails) ==
    LET row == IF fails THEN None ELSE repository_get(ParseI32(id).val)
    IN  IF IsSome(row) THEN Some(PlanetFrom(Unwrap(row))) ELSE None

\* the identifier of a field converts to the integer key
IdParses(id) == ParseI32(id).ok

\* Query::planet (Query::find_planet_by_id is the same call), once per
\* aliased field of the query
planet(o) ==
    /\ pc[o] = "idle"
    /\ \E ids \in AliasInputs :
         /\ args' = [args EXCEPT ![o] = ids]
         /\ IF \E i \in 1..Len(ids) : ~IdParses(ids[i])
            THEN /\ Panics(o, "planet", "Can't get id from String", "none")
                 /\ UNCHANGED <<bodies, pending>>
            ELSE \E failAt \in 0..Len(ids) :
                   Resolves(o, "planet",
                            [i \in 1..Len(ids) |-> find_planet_by_id_internal(ids[i], i = failAt)],
                            IF failAt = 0 THEN "none" ELSE "get")
    /\ UNCHANGED <<planetRows, detailRows, nextId, delivered, detailCalls,
                   created, result, senders, recv, phaseAtSub, pubLog, codecVars>>

(***************************************************************************)
(* The detail loader's batch                                               *)
(***************************************************************************)
\* the loader hands the batch function each requested key once
RECURSIVE Dedup(_)
Dedup(q) ==
    IF q = <<>> THEN <<>>
    ELSE LET front == Dedup(SubSeq(q, 1, Len(q) - 1))
             x     == q[Len(q)]
         IN  IF \E i \in 1..Len(front) : front[i] = x THEN front ELSE Append(front, x)

\* the closure of DetailsBatchLoader::load for one key whose row was read
LoadEntryOfFirstKey(planet_id, keys) ==
    DetailsFrom(Unwrap(repository_get_details(ParseI32(keys[1]).val)))

LoadEntry(planet_id, keys) ==
    DetailsFrom(Unwrap(repository_get_details(ParseI32(planet_id).val)))

\* whether the closure panics at key i: no connection or a failing lookup
\* (injected at failAt), an identifier that does not convert, no row
KeyFails(keys, i, failAt) ==
    \/ i = failAt
    \/ ~IdParses(keys[i])
    \/ ~IsSome(repository_get_details(ParseI32(keys[i]).val))

\* the first key at which the closure panics, 0 when it panics at none
FirstFailing(keys, failAt) ==
    LET bad == {i \in 1..Len(keys) : KeyFails(keys, i, failAt)}
    IN  IF bad = {} THEN 0 ELSE MinOf(bad)

\* the expect that panics at key i
LoadPanicMsg(keys, i, failAt, failKind) ==
    IF i = failAt /\ failKind = "pool" THEN "Can't get DB connection"
    ELSE IF ~IdParses(keys[i]) THEN "Can't convert id"
    ELSE "Can't get details for a planet"

\* the response renders every delivered mass with to_value
AllMassesEncode(ds) == \A i \in 1..Len(ds) : to_value(Unwrap(ds[i]).mass).ok

\* DetailsBatchLoader::load on the batch of one operation, and the
\* completion of its load futures
load(o) ==
    /\ pc[o] = "requested"
    /\ \E failAt \in 0..Len(Dedup(pending[o])), failKind \in {"pool", "get_details"} :
         LET keys  == Dedup(pending[o])
             first == FirstFailing(keys, failAt)
             map   == [k \in {keys[i] : i \in 1..Len(keys)} |-> LoadEntry(k, keys)]
             got   == [i \in 1..Len(pending[o]) |-> Some(map[pending[o][i]])]
         IN  /\ failAt = 0 => failKind = "get_details"
             /\ IF first # 0
                THEN /\ detailCalls' =
                          [detailCalls EXCEPT ![o] =
                              IF first = failAt /\ failKind = "pool" THEN first - 1 ELSE first]
                     /\ delivered' = [delivered EXCEPT ![o] = [i \in 1..Len(pending[o]) |-> None]]
                     /\ pc' = [pc EXCEPT ![o] = "panicked"]
                     /\ panicMsg' = [panicMsg EXCEPT ![o] = LoadPanicMsg(keys, first, failAt, failKind)]
                     /\ gwFailed' = [gwFailed EXCEPT ![o] =
                                        IF first = failAt THEN failKind ELSE gwFailed[o]]
                ELSE /\ detailCalls' = [detailCalls EXCEPT ![o] = Len(keys)]
                     /\ delivered' = [delivered EXCEPT ![o] = got]
                     /\ IF AllMassesEncode(got)
                        THEN /\ pc' = [pc EXCEPT ![o] = "done"]
                             /\ UNCHANGED panicMsg
                        ELSE /\ pc' = [pc EXCEPT ![o] = "panicked"]
                             /\ panicMsg' = [panicMsg EXCEPT ![o] = "Can't convert BigInt to an integer"]
                     /\ UNCHANGED gwFailed
    /\ UNCHANGED <<planetRows, detailRows, nextId, kind, args, bodies, pending,
                   created, result, senders, recv, phaseAtSub, pubLog, codecVars>>

(***************************************************************************)
(* Mutation::create_planet, in the steps another thread can interleave     *)
(* with: the insert, the publish, the return                               *)
(***************************************************************************)
NewPlanetEntity(name, planet_type) ==
    [name |-> name, planet_type |-> PlanetTypeToString(planet_type)]

NewDetailsEntity(details) ==
    [mean_radius |-> details.mean_radius,
     mass        |-> get_new_planet_mass(details.mass.mantissa, details.mass.exponent),
     population  |-> details.population,
     planet_id   |-> 0]

\* lines 65-77: the entities are built and repository::create is called
create_planet_insert(o) ==
    /\ pc[o] = "idle"
    /\ \E input \in CreateInputs, fails \in BOOLEAN :
         IF fails
         THEN /\ Panics(o, "create_planet", "Can't create planet", "create")
              /\ UNCHANGED <<planetRows, detailRows, nextId, created>>
         ELSE LET new_planet  == NewPlanetEntity(input.name, input.planet_type)
                  new_details == NewDetailsEntity(input.details)
              IN  /\ planetRows' = Append(planetRows, CreatedPlanetEntity(new_planet))
                  /\ detailRows' = detailRows \cup {CreatedDetailsEntity(new_details)}
                  /\ nextId' = nextId + 1
                  /\ created' = [created EXCEPT ![o] = Some(CreatedPlanetEntity(new_planet))]
                  /\ pc' = [pc EXCEPT ![o] = "inserted"]
                  /\ kind' = [kind EXCEPT ![o] = "create_planet"]
                  /\ UNCHANGED <<panicMsg, gwFailed>>
    /\ UNCHANGED <<args, bodies, pending, delivered, detailCalls, result, senders,
                   recv, phaseAtSub, pubLog, codecVars>>

\* SimpleBroker::publish: the message is sent to every subscribed stream
publish(queues, to, msg) ==
    [s \in DOMAIN queues |-> IF s \in to THEN Append(queues[s], msg) ELSE queues[s]]

\* the publish calls create_planet makes for the created entity
PublishCallsTwice(entity) == <<PlanetFrom(entity), PlanetFrom(entity)>>

PublishCalls(entity) == <<PlanetFrom(entity)>>

RECURSIVE PublishAll(_, _, _)
PublishAll(queues, to, msgs) ==
    IF msgs = <<>> THEN queues
    ELSE PublishAll(publish(queues, to, msgs[1]), to, Tail(msgs))

\* line 79
create_planet_publish(o) ==
    /\ pc[o] = "inserted"
    /\ LET msgs == PublishCalls(Unwrap(created[o]))
       IN  /\ recv' = PublishAll(recv, senders, msgs)
           /\ pubLog' = pubLog \o [i \in 1..Len(msgs) |-> [op |-> o, body |-> msgs[i]]]
    /\ pc' = [pc EXCEPT ![o] = "published"]
    /\ UNCHANGED <<planetRows, detailRows, nextId, kind, args, bodies, pending,
                   delivered, detailCalls, gwFailed, panicMsg, created, result,
                   senders, phaseAtSub, codecVars>>

\* line 81
create_planet_return(o) ==
    /\ pc[o] = "published"
    /\ result' = [result EXCEPT ![o] = Some(IdFromInt(Unwrap(created[o]).id))]
    /\ pc' = [pc EXCEPT ![o] = "done"]
    /\ UNCHANGED <<planetRows, detailRows, nextId, kind, args, bodies, pending,
                   delivered, detailCalls, gwFailed, panicMsg, created,
                   senders, recv, phaseAtSub, pubLog, codecVars>>

(***************************************************************************)
(* Subscription::latest_planet                                             *)
(***************************************************************************)
\* SimpleBroker::subscribe: a new stream, empty, joins the subscribed ones
subscribe_replay(log) == [i \in 1..Len(log) |-> log[i].body]

subscribe(log) == <<>>

latest_planet(o) ==
    /\ pc[o] = "idle"
    /\ senders' = senders \cup {o}
    /\ recv' = [recv EXCEPT ![o] = subscribe(pubLog)]
    /\ phaseAtSub' = [phaseAtSub EXCEPT ![o] = pc]
    /\ pc' = [pc EXCEPT ![o] = "streaming"]
    /\ kind' = [kind EXCEPT ![o] = "latest_planet"]
    /\ UNCHANGED <<planetRows, detailRows, nextId, args, bodies, pending, delivered,
                   detailCalls, gwFailed, panicMsg, created, result, pubLog,
                   codecVars>>

Next ==
    \E o \in Ops :
        \/ planets(o)
        \/ planet(o)
        \/ load(o)
        \/ create_planet_insert(o)
        \/ create_planet_publish(o)
        \/ create_planet_return(o)
        \/ latest_planet(o)

Spec == Init /\ [][Next]_vars

(***************************************************************************)
(* The mass of one created body, from the mutation's input to the wire:    *)
(* get_new_planet_mass, the stored row, Details::from, to_value            *)
(***************************************************************************)
\* mantissas 6.42, 1.0, 1.5, 0.5, -2.5, 12.34567, 1.701412 and 0
MantissaInputs ==
    { F32(FALSE, 6420000, 0), F32(FALSE, 1000000, 0), F32(FALSE, 1500000, 0),
      F32(FALSE, 5000000, -1), F32(TRUE, 2500000, 0), F32(FALSE, 1234567, 1),
      F32(FALSE, 1701412, 0), F32(FALSE, 0, 0) }

\* exponents of the u8 range: small ones, 23, both sides of the i128 limit
\* and the largest
ExponentInputs == {0, 1, 2, 23, 38, 39, 255}

PopulationInputs == {None, Some(Dec(25, 2))}

CodecInputs ==
    { [mean_radius |-> Dec(63710, 1),
       mass        |-> [mantissa |-> m, exponent |-> e],
       population  |-> p] :
      m \in MantissaInputs, e \in ExponentInputs, p \in PopulationInputs }

InitCodec ==
    /\ InitMain
    /\ detailRows = SeedDetails
    /\ cPhase = "input"
    /\ cInput \in {Some(i) : i \in CodecInputs}
    /\ cNew = None
    /\ cRow = None
    /\ cDetails = None
    /\ cWire = None

\* lines 70-75
CodecNew ==
    /\ cPhase = "input"
    /\ cNew' = Some(NewDetailsEntity(Unwrap(cInput)))
    /\ cPhase' = "new"
    /\ UNCHANGED <<mainVars, cInput, cRow, cDetails, cWire>>

\* repository::create stores the row, repository::get_details reads it
CodecStore ==
    /\ cPhase = "new"
    /\ cRow' = Some(CreatedDetailsEntity(Unwrap(cNew)))
    /\ cPhase' = "row"
    /\ UNCHANGED <<mainVars, cInput, cNew, cDetails, cWire>>

\* line 256
CodecDetails ==
    /\ cPhase = "row"
    /\ cDetails' = Some(DetailsFrom(Unwrap(cRow)))
    /\ cPhase' = "details"
    /\ UNCHANGED <<mainVars, cInput, cNew, cRow, cWire>>

\* the mass field of the response
CodecWire ==
    /\ cPhase = "details"
    /\ cWire' = Some(to_value(Unwrap(cDetails).mass))
    /\ cPhase' = "wire"
    /\ UNCHANGED <<mainVars, cInput, cNew, cRow, cDetails>>

NextCodec == CodecNew \/ CodecStore \/ CodecDetails \/ CodecWire

SpecCodec == InitCodec /\ [][NextCodec]_vars

(***************************************************************************)
(* Properties                                                              *)
(***************************************************************************)
\* how an operation ended for its caller.  No resolver returns a Result:
\* an operation returns its value or panics in an expect.
Outcome(o) ==
    IF pc[o] = "panicked" THEN "panic"
    ELSE IF pc[o] = "done" THEN "returned"
    ELSE "running"

\* the batch of operation o was loaded and every load future got its value
BatchCompleted(o) ==
    /\ delivered[o] # <<>>
    /\ \A i \in 1..Len(delivered[o]) : IsSome(delivered[o][i])

\* C1: an operation that issued N >= 1 detail requests, duplicates or not,
\* made exactly one detail lookup call to the gateway for the whole batch.
C1_OneDetailLookupPerBatch ==
    \A o \in Ops : BatchCompleted(o) => detailCalls[o] = 1

\* C2: in a batch that met no gateway outage, a request whose identifier has
\* a detail row resolves to the Details of that row, and only the requests
\* whose identifier has no row fail.
C2_MissingRowFailsOnlyItsFuture ==
    \A o \in Ops :
        (delivered[o] # <<>> /\ gwFailed[o] = "none") =>
            \A i \in 1..Len(pending[o]) :
                LET row == repository_get_details(ParseI32(pending[o][i]).val)
                IN  IF IsSome(row)
                    THEN delivered[o][i] = Some(DetailsFrom(Unwrap(row)))
                    ELSE delivered[o][i] = None

\* the body of the entity create_planet operation c inserted
BodyOf(c) == PlanetFrom(Unwrap(created[c]))

TimesReceived(s, c) ==
    Cardinality({i \in 1..Len(recv[s]) : recv[s][i] = BodyOf(c)})

\* C3, as stated: the body of a completed create_planet is in the stream of
\* every subscriber that subscribed before the create completed, and in the
\* stream of none that subscribed after its broadcast finished.
C3_DeliveredIffSubscribedBeforeCreateCompleted ==
    \A c \in Ops, s \in senders :
        (kind[c] = "create_planet" /\ pc[c] = "done") =>
            /\ phaseAtSub[s][c] # "done" => TimesReceived(s, c) >= 1
            /\ phaseAtSub[s][c] \in {"published", "done"} => TimesReceived(s, c) = 0

\* C3, amended: the body a create_planet published is in the stream of
\* every subscriber that subscribed before the broadcast began, once, and in
\* the stream of none that subscribed after the broadcast finished, which
\* includes those that subscribed before the mutation returned; before the
\* broadcast it is in no stream.
C3_DeliveredIffSubscribedBeforeBroadcast ==
    \A c \in Ops, s \in senders :
        kind[c] = "create_planet" =>
            /\ pc[c] \in {"published", "done"} =>
                 /\ phaseAtSub[s][c] \in {"idle", "inserted"} => TimesReceived(s, c) = 1
                 /\ phaseAtSub[s][c] \in {"published", "done"} => TimesReceived(s, c) = 0
            /\ pc[c] = "inserted" => TimesReceived(s, c) = 0

C3_Witness ==
    \E c \in Ops, s \in senders :
        /\ kind[c] = "create_planet"
        /\ pc[c] = "done"
        /\ phaseAtSub[s][c] \in {"idle", "inserted"}
        /\ TimesReceived(s, c) = 1

\* C4: a planet(id) field whose identifier converts and matches no record
\* is null, and a query with an identifier that does not convert ends with
\* an InvalidIdentifier error value.
C4_MalformedIdentifierIsAnError ==
    \A o \in Ops :
        kind[o] = "planet" =>
            /\ (\E i \in 1..Len(args[o]) : ~IdParses(args[o][i])) =>
                   Outcome(o) = "error: InvalidIdentifier"
            /\ (\A i \in 1..Len(args[o]) : IdParses(args[o][i])) =>
                   /\ Outcome(o) # "panic" \/ delivered[o] # <<>>
                   /\ \A i \in 1..Len(args[o]) :
                          ~IsSome(repository_get(ParseI32(args[o][i]).val)) =>
                              bodies[o][i] = None

\* C5: a failing gateway call in planets, create_planet or the detail batch
\* load is returned to the caller as an error; the operation neither panics
\* nor returns as if nothing had failed.
C5_GatewayFailureIsAnError ==
    \A o \in Ops :
        gwFailed[o] \in {"all", "create", "pool", "get_details"} =>
            Outcome(o) = "error: GatewayUnavailable"

\* the publish calls made for create_planet operation o
PublishesOf(o) == {i \in 1..Len(pubLog) : pubLog[i].op = o}

\* C9: create_planet publishes the created body exactly once, after the
\* insert returned and before the mutation returns; the published body
\* carries the identifier the insert assigned, which the mutation returns;
\* a create_planet whose insert failed, and every other operation,
\* publishes nothing.
C9_PublishedOnceAfterInsert ==
    \A o \in Ops :
        /\ pc[o] \notin {"published", "done"} \/ kind[o] # "create_planet" =>
               PublishesOf(o) = {}
        /\ kind[o] = "create_planet" /\ pc[o] \in {"published", "done"} =>
               /\ Cardinality(PublishesOf(o)) = 1
               /\ IsSome(repository_get(Unwrap(created[o]).id))
               /\ \A i \in PublishesOf(o) :
                      pubLog[i].body.id = IdFromInt(Unwrap(created[o]).id)
        /\ kind[o] = "create_planet" =>
               IF pc[o] = "done"
               THEN result[o] = Some(IdFromInt(Unwrap(created[o]).id))
               ELSE result[o] = None

C9_Witness ==
    \E o \in Ops :
        /\ kind[o] = "create_planet"
        /\ pc[o] = "done"
        /\ Cardinality(PublishesOf(o)) = 1
        /\ \E p \in Ops : kind[p] = "create_planet" /\ pc[p] = "panicked"

\* C10: the Details a load future resolved to is the one built from the
\* gateway's detail row of the identifier that was requested.
C10_DetailsKeyedByIdentifier ==
    \A o \in Ops :
        \A i \in 1..Len(delivered[o]) :
            IsSome(delivered[o][i]) =>
                LET row == repository_get_details(ParseI32(pending[o][i]).val)
                IN  /\ IsSome(row)
                    /\ Unwrap(delivered[o][i]) = DetailsFrom(Unwrap(row))

C10_Witness ==
    \E o \in Ops :
        /\ Len(delivered[o]) >= 2
        /\ BatchCompleted(o)
        /\ delivered[o][1] # delivered[o][2]

\* the mass pipeline has built the Details
AtDetails == cPhase \in {"details", "wire"}

\* C6: the Details built from a row is inhabited iff the row has a
\* population, uninhabited iff it has none; its mean radius and mass equal
\* the row's, and an inhabited one's population equals the row's.
C6_DetailsMirrorTheRow ==
    AtDetails =>
        LET row == Unwrap(cRow)
            d   == Unwrap(cDetails)
        IN  /\ d.variant = "InhabitedPlanetDetails" <=> IsSome(row.population)
            /\ d.variant = "UninhabitedPlanetDetails" <=> ~IsSome(row.population)
            /\ d.mean_radius = row.mean_radius
            /\ DecimalEq(BigDecimal(d.mass, 0), row.mass)
            /\ IsSome(row.population) => d.population = Unwrap(row.population)

\* mantissa * 10^exponent, exactly
ExactMass(mass) ==
    BigDecimal(BigInt(mass.mantissa.neg, NatDigits(mass.mantissa.sig)),
               F32Digits - mass.mantissa.exp - mass.exponent)

\* C7: the integer mass returned for a created body equals
\* mantissa * 10^exponent exactly.
C7_MassIsExactProduct ==
    AtDetails =>
        DecimalEq(BigDecimal(Unwrap(cDetails).mass, 0), ExactMass(Unwrap(cInput).mass))

\* the integer a scientific-notation text denotes
DecodeSci(text) ==
    LET e      == CHOOSE i \in 1..Len(text) : text[i] = "e"
        mant   == SelectSeq(SubSeq(text, 1, e - 1), IsDigitChar)
        digits == [i \in 1..Len(mant) |-> DigitVal(mant[i])]
        exp    == ParseI32(SubSeq(text, e + 1, Len(text))).val
    IN  BigInt(text[1] = "-",
               StripLeading(digits \o Zeros(exp - (Len(digits) - 1))))

\* C8: encoding an integer mass succeeds whatever its size, and the
\* scientific notation it yields denotes the mass.
C8_EncodingAlwaysSucceeds ==
    cPhase = "wire" =>
        /\ Unwrap(cWire).ok
        /\ DecodeSci(Unwrap(cWire).text) = Unwrap(cDetails).mass

=============================================================================
